---- MODULE Spec2Model ----
(***************************************************************************)
(* A model of go-groshi, the client library of the groshi API.             *)
(*                                                                         *)
(* src/client.go holds two revisions of the client:                        *)
(*   rev = 1  the typed client      (src/client.go lines 1-427), whose     *)
(*            response types are in src/unnamed/part_000;                  *)
(*   rev = 2  the untyped client    (src/client.go lines 429-796), which   *)
(*            decodes every response into `any`.                           *)
(* One client instance is modelled.  A call runs through the positions of  *)
(* sendRequest: the token check, the construction of the request, the      *)
(* round trip with the interpretation of the response.                     *)
(***************************************************************************)
EXTENDS Integers, Sequences, FiniteSets, TLC

VARIABLES
    rev,        \* which revision of client.go the client is built from
    baseURL,    \* GroshiAPIClient.baseURL
    token,      \* GroshiAPIClient.token (revision 2: jwt)
    pc,         \* position of the caller: idle, entered, checked, built, done
    call,       \* the endpoint method running and what it passed to sendRequest
    steps,      \* the stages of sendRequest the running call has executed
    request,    \* the http.Request the running call built
    nSent,      \* HTTP requests the running call handed to the transport
    response,   \* what the transport gave back to the running call
    outcome,    \* what the endpoint method gave back to its caller
    ev,         \* history: the last operation taken and its token argument
    auth,       \* history: the token of the last login stored by Auth
    race        \* history: the token the running call's check read, and the
                \* writes of other callers to the token during the call

vars == <<rev, baseURL, token, pc, call, steps, request, nSent, response,
          outcome, ev, auth, race>>

----------------------------------------------------------------------------
(* Bounds of the model.                                                    *)

\* tokens tok1..tokMaxTok besides the empty one
MaxTok == 2
\* seconds 0..MaxSec of the modelled instants
MaxSec == 1
\* assignments of the token by other callers while one call runs
MaxWrites == 1

----------------------------------------------------------------------------
(* Values.                                                                 *)

StatusOK == 200

Tokens == {""} \cup {"tok" \o ToString(i) : i \in 1..MaxTok}

\* An instant: a year, a second within it, and nanoseconds (UTC).
Times ==
    [year : {2024}, sec : 0..MaxSec, nsec : {0, 500000000}]
    \cup {[year |-> 10000, sec |-> 0, nsec |-> 0]}
ZeroTime == [year |-> 1, sec |-> 0, nsec |-> 0]

\* Go values a body-parameter map (map[string]any) holds.
GoString(s) == [t |-> "string", s |-> s, n |-> 0, tm |-> ZeroTime]
GoStringPtr(s) == [t |-> "*string", s |-> s, n |-> 0, tm |-> ZeroTime]
GoInt(n) == [t |-> "int", s |-> "", n |-> n, tm |-> ZeroTime]
GoTime(tm) == [t |-> "time.Time", s |-> "", n |-> 0, tm |-> tm]

\* A Go map: nil, or a set of <<key, value>> pairs with distinct keys.
NilMap == [nil |-> TRUE, m |-> {}]
MakeMap == [nil |-> FALSE, m |-> {}]
Put(mp, k, v) == [nil |-> FALSE, m |-> {p \in mp.m : p[1] # k} \cup {<<k, v>>}]
Keys(m) == {p[1] : p \in m}
Has(m, k) == k \in Keys(m)
Get(m, k) == (CHOOSE p \in m : p[1] = k)[2]

\* An optional (pointer) parameter: nil, or pointing to v.
Nil(zero) == [set |-> FALSE, v |-> zero]
Ptr(v) == [set |-> TRUE, v |-> v]
OptOf(S, zero) == {Nil(zero)} \cup {Ptr(v) : v \in S}

\* JSON values of a response body.
JStr(s) == [t |-> "str", s |-> s, a |-> <<>>]
JNum == [t |-> "num", s |-> "", a |-> <<>>]
JNull == [t |-> "null", s |-> "", a |-> <<>>]
JArr(a) == [t |-> "arr", s |-> "", a |-> a]

\* A response body: not JSON, the literal null, an array, or an object.
Malformed == [kind |-> "malformed", f |-> {}]
JsonNull == [kind |-> "null", f |-> {}]
JsonArray == [kind |-> "array", f |-> {}]
JsonObject(f) == [kind |-> "object", f |-> f]

----------------------------------------------------------------------------
(* Timestamps.                                                             *)

TwoDigits(n) == IF n < 10 THEN "0" \o ToString(n) ELSE ToString(n)

\* t.Format(timeFormat), timeFormat = time.RFC3339 = "2006-01-02T15:04:05Z07:00":
\* whole seconds, no fraction.
timeFormat(t) ==
    ToString(t.year) \o "-01-01T00:00:" \o TwoDigits(t.sec) \o "Z"

RECURSIVE Digits(_, _)
Digits(n, width) ==
    IF width = 0 THEN "" ELSE Digits(n \div 10, width - 1) \o ToString(n % 10)

RECURSIVE TrimZeros(_, _)
TrimZeros(n, width) ==
    IF n % 10 = 0 THEN TrimZeros(n \div 10, width - 1) ELSE Digits(n, width)

\* time.Time.MarshalJSON, which encoding/json calls for a time.Time held in a
\* map[string]any: the layout RFC3339Nano ("...05.999999999Z07:00", the fraction
\* without trailing zeros, omitted when zero) in quotes; an error for a year
\* outside [0, 9999].
TimeMarshalJSON(t) ==
    IF t.year < 0 \/ t.year >= 10000
    THEN [ok |-> FALSE, text |-> ""]
    ELSE [ok |-> TRUE,
          text |-> "\"" \o ToString(t.year) \o "-01-01T00:00:" \o TwoDigits(t.sec)
                   \o (IF t.nsec = 0 THEN "" ELSE "." \o TrimZeros(t.nsec, 9))
                   \o "Z\""]

----------------------------------------------------------------------------
(* json.Marshal of the body parameters.                                    *)

MarshalValue(v) ==
    CASE v.t = "string" -> [ok |-> TRUE, text |-> "\"" \o v.s \o "\""]
      [] v.t = "*string" -> [ok |-> TRUE, text |-> "\"" \o v.s \o "\""]
      [] v.t = "int" -> [ok |-> TRUE, text |-> ToString(v.n)]
      [] v.t = "time.Time" -> TimeMarshalJSON(v.tm)

\* A nil map encodes as the JSON literal null, a non-nil map as an object.
jsonMarshal(bodyParams) ==
    IF bodyParams.nil
    THEN [ok |-> TRUE, kind |-> "null", members |-> {}]
    ELSE IF \E p \in bodyParams.m : ~MarshalValue(p[2]).ok
    THEN [ok |-> FALSE, kind |-> "none", members |-> {}]
    ELSE [ok |-> TRUE, kind |-> "object",
          members |-> {<<p[1], MarshalValue(p[2]).text>> : p \in bodyParams.m}]

----------------------------------------------------------------------------
(* Errors and results.                                                     *)

\* An error value: none, or one of the kinds sendRequest returns.  status is
\* GroshiAPIError.HTTPStatusCode (the revision 2 error type has no such field).
NoErr == [kind |-> "none", status |-> 0, msg |-> "", details |-> <<>>]
PlainErr(kind) == [kind |-> kind, status |-> 0, msg |-> "", details |-> <<>>]
GroshiAPIError(status, msg, details) ==
    [kind |-> "api", status |-> status, msg |-> msg, details |-> details]

\* The value an endpoint method returns beside its error: nil, or the decoded
\* payload (its shape and the token it holds, if any).
NoResult == [present |-> FALSE, shape |-> "nil", token |-> ""]
Result(shape, tok) == [present |-> TRUE, shape |-> shape, token |-> tok]

\* The targets of revision 1 that are slices.
SliceTargets == {"[]*Transaction", "[]Currency"}

\* A member of a JSON object as a struct field sees it: an absent key and a
\* null both leave the field at its zero value.
Member(body, k) == IF Has(body.f, k) THEN Get(body.f, k) ELSE JNull

\* A JSON value decoded into a string field / a []string field.
IsString(j) == j.t \in {"str", "null"}
IsStringSlice(j) ==
    \/ j.t = "null"
    \/ j.t = "arr" /\ \A i \in DOMAIN j.a : IsString(j.a[i])
StringSlice(j) == [i \in DOMAIN j.a |-> j.a[i].s]

\* json.Unmarshal(responseBody, &v), v holding a pointer to the endpoint's
\* result type (Authorization, User, Transaction, ... of part_000).
Unmarshal(body, target) ==
    CASE body.kind = "malformed" -> [ok |-> FALSE, value |-> NoResult]
      [] body.kind = "null" ->
            [ok |-> TRUE,
             value |-> Result(IF target \in SliceTargets THEN "list" ELSE "object", "")]
      [] body.kind = "array" ->
            IF target \in SliceTargets
            THEN [ok |-> TRUE, value |-> Result("list", "")]
            ELSE [ok |-> FALSE, value |-> NoResult]
      [] body.kind = "object" ->
            IF target \in SliceTargets
            THEN [ok |-> FALSE, value |-> NoResult]
            ELSE IF target = "Authorization"
            THEN IF IsString(Member(body, "token"))
                 THEN [ok |-> TRUE,
                       value |-> Result("object", Member(body, "token").s)]
                 ELSE [ok |-> FALSE, value |-> NoResult]
            ELSE [ok |-> TRUE, value |-> Result("object", "")]

\* json.Unmarshal(responseBody, &errorModel), errorModel an Error of part_000.
UnmarshalError(body) ==
    CASE body.kind = "malformed" -> [ok |-> FALSE, msg |-> "", details |-> <<>>]
      [] body.kind = "null" -> [ok |-> TRUE, msg |-> "", details |-> <<>>]
      [] body.kind = "array" -> [ok |-> FALSE, msg |-> "", details |-> <<>>]
      [] body.kind = "object" ->
            IF /\ IsString(Member(body, "error_message"))
               /\ IsStringSlice(Member(body, "error_details"))
            THEN [ok |-> TRUE,
                  msg |-> Member(body, "error_message").s,
                  details |-> StringSlice(Member(body, "error_details"))]
            ELSE [ok |-> FALSE, msg |-> "", details |-> <<>>]

\* Revision 1, the end of sendRequest: the status decides which shape the body
\* is decoded into.  What sendRequest gives back: whether it panicked, the
\* value written through v, and the error returned.
InterpretV1(status, body, target) ==
    IF status = StatusOK
    THEN LET u == Unmarshal(body, target) IN
         IF u.ok
         THEN [panic |-> FALSE, value |-> u.value, err |-> NoErr]
         ELSE [panic |-> FALSE, value |-> NoResult, err |-> PlainErr("decode")]
    ELSE LET e == UnmarshalError(body) IN
         IF e.ok
         THEN [panic |-> FALSE, value |-> NoResult,
               err |-> GroshiAPIError(status, e.msg, e.details)]
         ELSE [panic |-> FALSE, value |-> NoResult, err |-> PlainErr("decode")]

\* Revision 2: the body is decoded into `any`; a non-200 body is taken apart
\* with unchecked type assertions x.(T), which panic when x is not a T (a
\* missing key reads as nil, which is no string and no []interface{}).
InterpretV2(status, body) ==
    IF body.kind = "malformed"
    THEN [panic |-> FALSE, value |-> NoResult, err |-> PlainErr("decode")]
    ELSE IF status = StatusOK
    THEN [panic |-> FALSE,
          value |-> Result("any", IF body.kind = "object" /\ Member(body, "token").t = "str"
                                  THEN Member(body, "token").s ELSE ""),
          err |-> NoErr]
    ELSE IF body.kind # "object"
    THEN [panic |-> FALSE, value |-> NoResult, err |-> PlainErr("decode")]
    ELSE LET desc == IF Has(body.f, "error_description")
                     THEN Get(body.f, "error_description") ELSE JNull
             det == IF Has(body.f, "error_details")
                    THEN Get(body.f, "error_details") ELSE JNull
         IN IF \/ desc.t # "str"
               \/ det.t # "arr"
               \/ \E i \in DOMAIN det.a : det.a[i].t # "str"
            THEN [panic |-> TRUE, value |-> NoResult, err |-> NoErr]
            ELSE [panic |-> FALSE, value |-> NoResult,
                  err |-> GroshiAPIError(0, desc.s, StringSlice(det))]

----------------------------------------------------------------------------
(* The endpoint methods: what each passes to sendRequest.                  *)

\* The arguments of one sendRequest call.
SR(method, path, queryParams, bodyParams, authorize, target) ==
    [method |-> method, path |-> path, queryParams |-> queryParams,
     bodyParams |-> bodyParams, authorize |-> authorize, target |-> target]

\* Put(mp, k, v) when the pointer p is not nil.
PutAlways(mp, k, p, v) == Put(mp, k, v)
PutIfSet(mp, k, p, v) == IF p.set THEN Put(mp, k, v) ELSE mp

Credentials(username, password) ==
    Put(Put(MakeMap, "username", GoString(username)), "password", GoString(password))

\* ---- revision 1 ----

AuthLoginV1(username, password) ==
    SR("POST", "/auth/login", NilMap, Credentials(username, password), FALSE,
       "Authorization")

AuthRefreshV1 == SR("POST", "/auth/refresh", NilMap, NilMap, TRUE, "Authorization")

UserCreateV1(username, password) ==
    SR("POST", "/user", NilMap, Credentials(username, password), FALSE, "User")

UserReadV1 == SR("GET", "/user", NilMap, NilMap, TRUE, "User")

UserUpdateV1(newUsername, newPassword) ==
    LET b1 == PutIfSet(MakeMap, "new_username", newUsername, GoString(newUsername.v))
        b2 == PutIfSet(b1, "new_password", newPassword, GoString(newPassword.v))
    IN SR("PUT", "/user", NilMap, b2, TRUE, "User")

UserDeleteV1 == SR("DELETE", "/user", NilMap, NilMap, TRUE, "User")

TransactionsCreateV1(amount, currency, description, timestamp) ==
    LET b0 == Put(Put(MakeMap, "amount", GoInt(amount)), "currency", GoString(currency))
        b1 == PutIfSet(b0, "description", description, GoString(description.v))
        b2 == PutIfSet(b1, "timestamp", timestamp, GoTime(timestamp.v))
    IN SR("POST", "/transactions", NilMap, b2, TRUE, "Transaction")

TransactionsReadOneV1(uuid, currency) ==
    LET q == PutIfSet(NilMap, "currency", currency, currency.v)
    IN SR("GET", "/transactions/" \o uuid, q, NilMap, TRUE, "Transaction")

TransactionsReadManyV1(startTime, endTime, currency) ==
    LET q0 == Put(MakeMap, "start_time", timeFormat(startTime))
        q1 == PutIfSet(q0, "end_time", endTime, timeFormat(endTime.v))
        q2 == PutIfSet(q1, "currency", currency, currency.v)
    IN SR("GET", "/transactions", q2, NilMap, TRUE, "[]*Transaction")

TransactionsUpdateV1(uuid, newAmount, newCurrency, newDescription, newTimestamp) ==
    LET b1 == PutIfSet(MakeMap, "new_amount", newAmount, GoInt(newAmount.v))
        b2 == PutIfSet(b1, "new_currency", newCurrency, GoString(newCurrency.v))
        b3 == PutIfSet(b2, "new_description", newDescription,
                       GoString(newDescription.v))
        b4 == PutIfSet(b3, "new_timestamp", newTimestamp,
                       GoString(timeFormat(newTimestamp.v)))
    IN SR("PUT", "/transactions/" \o uuid, NilMap, b4, TRUE, "Transaction")

TransactionsDeleteV1(uuid) ==
    SR("DELETE", "/transactions/" \o uuid, NilMap, NilMap, TRUE, "Transaction")

TransactionsReadSummaryV1(currency, startTime, endTime) ==
    LET q0 == Put(Put(MakeMap, "currency", currency),
                  "start_time", timeFormat(startTime))
        q1 == PutIfSet(q0, "end_time", endTime, timeFormat(endTime.v))
    IN SR("GET", "/transactions/summary", q1, NilMap, TRUE, "TransactionsSummary")

CurrenciesReadV1 == SR("GET", "/currencies", NilMap, NilMap, FALSE, "[]Currency")

\* ---- revision 2 ----

AuthLoginV2(username, password) ==
    SR("POST", "/auth/login", NilMap, Credentials(username, password), FALSE, "any")

AuthLogoutV2 == SR("POST", "/auth/logout", NilMap, NilMap, TRUE, "any")

AuthRefreshV2 == SR("POST", "/auth/refresh", NilMap, NilMap, TRUE, "any")

UserCreateV2(username, password) ==
    SR("POST", "/user", NilMap, Credentials(username, password), FALSE, "any")

UserReadV2 == SR("GET", "/user", NilMap, NilMap, TRUE, "any")

UserUpdateV2(newUsername, newPassword) ==
    LET b1 == PutIfSet(MakeMap, "new_username", newUsername, GoString(newUsername.v))
        b2 == PutIfSet(b1, "new_password", newPassword, GoString(newPassword.v))
    IN SR("PUT", "/user", NilMap, b2, TRUE, "any")

UserDeleteV2 == SR("DELETE", "/user", NilMap, NilMap, TRUE, "any")

TransactionsCreateV2(amount, currency, description, date) ==
    LET b0 == Put(Put(MakeMap, "amount", GoInt(amount)), "currency", GoString(currency))
        b1 == PutIfSet(b0, "description", description, GoString(description.v))
        b2 == PutIfSet(b1, "date", date, GoTime(date.v))
    IN SR("POST", "/transactions", NilMap, b2, TRUE, "any")

TransactionsReadManyV2(startTime, endTime) ==
    LET q0 == Put(MakeMap, "start_time", timeFormat(startTime))
        q1 == PutIfSet(q0, "end_time", endTime, timeFormat(endTime.v))
    IN SR("GET", "/transactions", q1, NilMap, TRUE, "any")

TransactionsReadOneV2(uuid) ==
    SR("GET", "/transactions/" \o uuid, NilMap, NilMap, TRUE, "any")

\* bodyParams is filled (new_currency with the pointer itself) and then not
\* passed: sendRequest gets nil for the body parameters.
TransactionsUpdateV2(uuid, newAmount, newCurrency, newDescription, newDate) ==
    LET b1 == PutIfSet(MakeMap, "new_amount", newAmount, GoInt(newAmount.v))
        b2 == PutIfSet(b1, "new_currency", newCurrency, GoStringPtr(newCurrency.v))
        b3 == PutIfSet(b2, "new_description", newDescription,
                       GoString(newDescription.v))
        bodyParams == PutIfSet(b3, "new_date", newDate,
                               GoString(timeFormat(newDate.v)))
    IN SR("PUT", "/transactions/" \o uuid, NilMap, NilMap, TRUE, "any")

TransactionsDeleteV2(uuid) ==
    SR("DELETE", "/transactions/" \o uuid, NilMap, NilMap, TRUE, "any")

TransactionsReadSummaryV2(startTime, currency, endTime) ==
    LET q0 == Put(Put(MakeMap, "start_time", timeFormat(startTime)),
                  "currency", currency)
        q1 == PutIfSet(q0, "end_time", endTime, timeFormat(endTime.v))
    IN SR("GET", "/transactions/summary", q1, NilMap, TRUE, "any")

----------------------------------------------------------------------------
(* sendRequest.                                                            *)

\* The opening check of sendRequest.
NeverMissing(authorize, tok) == FALSE
TokenMissing(authorize, tok) == authorize /\ tok = ""

\* The value of the Authorization header.
BearerWithoutToken(tok) == "Bearer"
AuthorizationHeader(tok) == "Bearer " \o tok

\* Identifiers a caller may pass; url.Parse rejects a path holding a malformed
\* percent escape.
UUIDs == {"7f3c", "%zz"}
urlParse(base, path) == path \notin {"/transactions/" \o "%zz"}

NoRequest ==
    [built |-> FALSE, method |-> "", path |-> "", query |-> {},
     body |-> [kind |-> "none", members |-> {}],
     contentType |-> "", authorization |-> Nil("")]

\* The request sendRequest builds, once the URL parsed and the body encoded.
NewRequest(sr, base, tok) ==
    [built |-> TRUE, method |-> sr.method, path |-> base \o sr.path,
     query |-> sr.queryParams.m,
     body |-> [kind |-> jsonMarshal(sr.bodyParams).kind,
               members |-> jsonMarshal(sr.bodyParams).members],
     contentType |-> "application/json",
     authorization |-> IF sr.authorize THEN Ptr(AuthorizationHeader(tok))
                       ELSE Nil("")]

\* What the transport gives back: a failure of Do or of ReadAll, or a status
\* with a body.
NoResponse == [fail |-> "none", status |-> 0, body |-> Malformed]
StatusCodes == {StatusOK, 201, 401}
Bodies ==
    {Malformed, JsonNull, JsonArray, JsonObject({}),
     JsonObject({<<"token", JNum>>}),
     JsonObject({<<"error_message", JStr("invalid credentials")>>,
                 <<"error_details", JArr(<<>>)>>}),
     JsonObject({<<"error_message", JStr("bad request")>>,
                 <<"error_details",
                   JArr(<<JStr("password too short"), JStr("username taken")>>)>>}),
     JsonObject({<<"error_message", JStr("no details")>>}),
     JsonObject({<<"error_details", JArr(<<JStr("no message")>>)>>}),
     JsonObject({<<"error_message", JStr("bad details")>>,
                 <<"error_details", JArr(<<JNum>>)>>}),
     JsonObject({<<"error_description", JStr("old style")>>,
                 <<"error_details", JArr(<<JStr("detail")>>)>>})}
    \cup {JsonObject({<<"token", JStr(t)>>}) : t \in Tokens}
Responses ==
    {[fail |-> f, status |-> 0, body |-> Malformed] : f \in {"Do", "ReadAll"}}
    \cup {[fail |-> "none", status |-> st, body |-> b] : st \in StatusCodes, b \in Bodies}

\* sendRequest from httpClient.Do on.
Interpret(r, resp, target) ==
    IF resp.fail # "none"
    THEN [panic |-> FALSE, value |-> NoResult, err |-> PlainErr("transport")]
    ELSE IF r = 1 THEN InterpretV1(resp.status, resp.body, target)
    ELSE InterpretV2(resp.status, resp.body)

----------------------------------------------------------------------------
(* What an endpoint method makes of sendRequest's return.                  *)

NoOutcome == [kind |-> "none", result |-> NoResult, err |-> NoErr]
Panicked == [kind |-> "panic", result |-> NoResult, err |-> NoErr]

\* if err != nil { return nil, err }; return &value, nil
\* (revision 2 returns sendRequest's pair, which has this form already).
EndpointReturn(s) ==
    IF s.panic THEN Panicked
    ELSE IF s.err.kind # "none"
    THEN [kind |-> "returned", result |-> NoResult, err |-> s.err]
    ELSE [kind |-> "returned", result |-> s.value, err |-> NoErr]

\* SetToken: the assignment c.token = token.
SetTokenLost(old, tok) == old
SetTokenField(old, tok) == tok

\* Auth, from AuthLogin's return on: the token it leaves in the client and
\* the error it returns.
AuthStoresUnchecked(tok, login) ==
    [token |-> SetTokenField(tok, login.result.token),
     outcome |-> [kind |-> login.kind, result |-> NoResult, err |-> login.err]]
AuthAfterLogin(tok, login) ==
    IF login.kind = "returned" /\ login.err.kind = "none"
    THEN [token |-> SetTokenField(tok, login.result.token),
          outcome |-> [kind |-> "returned", result |-> NoResult, err |-> NoErr]]
    ELSE [token |-> tok,
          outcome |-> [kind |-> login.kind, result |-> NoResult, err |-> login.err]]

\* The end of a call: the token and the outcome after the endpoint method
\* returned.  Only Auth touches the token.
RefreshStoresToken(ep, tok, s) ==
    IF ep = "Auth" THEN AuthAfterLogin(tok, EndpointReturn(s))
    ELSE IF ep = "AuthRefresh" /\ ~s.panic /\ s.err.kind = "none"
    THEN [token |-> s.value.token, outcome |-> EndpointReturn(s)]
    ELSE [token |-> tok, outcome |-> EndpointReturn(s)]
Finish(ep, tok, s) ==
    IF ep = "Auth" THEN AuthAfterLogin(tok, EndpointReturn(s))
    ELSE [token |-> tok, outcome |-> EndpointReturn(s)]

----------------------------------------------------------------------------
(* The state machine.                                                      *)

Usernames == {"alice"}
Passwords == {"secret"}
Amounts == {-5, 7}
Currencies == {"USD"}
Descriptions == {"lunch"}

\* The parameters of the running endpoint method; a parameter the method does
\* not have is nil.
NoArgs ==
    [username |-> Nil(""), password |-> Nil(""), uuid |-> "",
     amount |-> Nil(0), currency |-> Nil(""), description |-> Nil(""),
     timestamp |-> Nil(ZeroTime), startTime |-> Nil(ZeroTime),
     endTime |-> Nil(ZeroTime)]

NoCall == [ep |-> "none", args |-> NoArgs,
           sr |-> SR("", "", NilMap, NilMap, FALSE, "")]
NoAuth == [valid |-> FALSE, tok |-> ""]
NoRace == [checked |-> "", stale |-> {}, writes |-> 0]

\* What a read of c.token may give.  The field is read and written without
\* any synchronisation: once another caller has assigned it during the call,
\* a read may give the value now stored, a value stored before (nothing
\* orders the write before the read), or a string torn between two of them
\* (pointer of one, length of the other).
Torn == "<torn>"
ReadsWithoutWrite == Tokens
TokenReads ==
    {token} \cup race.stale
        \cup (IF race.stale \ {token} # {} THEN {Torn} ELSE {})

\* NewGroshiAPIClient: the base URL loses its trailing slashes.
RawBaseURLs == {[host |-> "http://localhost:8080", slashes |-> n] : n \in 0..1}
TrimRight(raw) == raw.host

Init ==
    /\ rev \in {1, 2}
    /\ \E raw \in RawBaseURLs : baseURL = TrimRight(raw)
    /\ token \in Tokens
    /\ pc = "idle"
    /\ call = NoCall
    /\ steps = {}
    /\ request = NoRequest
    /\ nSent = 0
    /\ response = NoResponse
    /\ outcome = NoOutcome
    /\ ev = [op |-> "NewGroshiAPIClient", tok |-> token]
    /\ auth = NoAuth
    /\ race = NoRace

\* An endpoint method is entered and calls sendRequest.
Enter(ep, args, sr) ==
    /\ pc = "idle"
    /\ pc' = "entered"
    /\ call' = [ep |-> ep, args |-> args, sr |-> sr]
    /\ steps' = {}
    /\ request' = NoRequest
    /\ nSent' = 0
    /\ response' = NoResponse
    /\ outcome' = NoOutcome
    /\ ev' = [op |-> ep, tok |-> ""]
    /\ race' = NoRace
    /\ UNCHANGED <<rev, baseURL, token, auth>>

SetToken ==
    /\ rev = 1
    /\ pc = "idle"
    /\ \E t \in Tokens :
        /\ token' = SetTokenField(token, t)
        /\ ev' = [op |-> "SetToken", tok |-> t]
    /\ auth' = NoAuth
    /\ UNCHANGED <<rev, baseURL, pc, call, steps, request, nSent, response, outcome,
                   race>>

\* SetToken (or the SetToken of an Auth) by another caller on the same client
\* while a call to an authorized endpoint is between its check of the token
\* (line 42) and its read of the token for the header (line 71).  An
\* assignment that lands before the check is SetToken before the call; a call
\* to an endpoint without authorization reads the token at neither line.
OtherSetToken ==
    /\ rev = 1
    /\ pc = "checked"
    /\ call.sr.authorize
    /\ race.writes < MaxWrites
    /\ \E t \in Tokens :
        /\ token' = SetTokenField(token, t)
        /\ ev' = [op |-> "OtherSetToken", tok |-> t]
    /\ race' = [race EXCEPT !.stale = @ \cup {token}, !.writes = @ + 1]
    /\ auth' = NoAuth
    /\ UNCHANGED <<rev, baseURL, pc, call, steps, request, nSent, response, outcome>>

Auth ==
    /\ rev = 1
    /\ \E u \in Usernames, p \in Passwords :
        Enter("Auth", [NoArgs EXCEPT !.username = Ptr(u), !.password = Ptr(p)],
              AuthLoginV1(u, p))

AuthLogin ==
    \E u \in Usernames, p \in Passwords :
        Enter("AuthLogin", [NoArgs EXCEPT !.username = Ptr(u), !.password = Ptr(p)],
              IF rev = 1 THEN AuthLoginV1(u, p) ELSE AuthLoginV2(u, p))

AuthLogout ==
    /\ rev = 2
    /\ Enter("AuthLogout", NoArgs, AuthLogoutV2)

AuthRefresh ==
    Enter("AuthRefresh", NoArgs, IF rev = 1 THEN AuthRefreshV1 ELSE AuthRefreshV2)

UserCreate ==
    \E u \in Usernames, p \in Passwords :
        Enter("UserCreate", [NoArgs EXCEPT !.username = Ptr(u), !.password = Ptr(p)],
              IF rev = 1 THEN UserCreateV1(u, p) ELSE UserCreateV2(u, p))

UserRead ==
    Enter("UserRead", NoArgs, IF rev = 1 THEN UserReadV1 ELSE UserReadV2)

UserUpdate ==
    \E u \in OptOf(Usernames, ""), p \in OptOf(Passwords, "") :
        Enter("UserUpdate", [NoArgs EXCEPT !.username = u, !.password = p],
              IF rev = 1 THEN UserUpdateV1(u, p) ELSE UserUpdateV2(u, p))

UserDelete ==
    Enter("UserDelete", NoArgs, IF rev = 1 THEN UserDeleteV1 ELSE UserDeleteV2)

TransactionsCreate ==
    \E a \in Amounts, c \in Currencies, d \in OptOf(Descriptions, ""),
       ts \in OptOf(Times, ZeroTime) :
        Enter("TransactionsCreate",
              [NoArgs EXCEPT !.amount = Ptr(a), !.currency = Ptr(c),
                             !.description = d, !.timestamp = ts],
              IF rev = 1 THEN TransactionsCreateV1(a, c, d, ts)
              ELSE TransactionsCreateV2(a, c, d, ts))

TransactionsReadOne ==
    \E id \in UUIDs, c \in OptOf(Currencies, "") :
        /\ rev = 2 => ~c.set
        /\ Enter("TransactionsReadOne",
                 [NoArgs EXCEPT !.uuid = id, !.currency = c],
                 IF rev = 1 THEN TransactionsReadOneV1(id, c)
                 ELSE TransactionsReadOneV2(id))

TransactionsReadMany ==
    \E st \in Times, et \in OptOf(Times, ZeroTime), c \in OptOf(Currencies, "") :
        /\ rev = 2 => ~c.set
        /\ Enter("TransactionsReadMany",
                 [NoArgs EXCEPT !.startTime = Ptr(st), !.endTime = et,
                                !.currency = c],
                 IF rev = 1 THEN TransactionsReadManyV1(st, et, c)
                 ELSE TransactionsReadManyV2(st, et))

TransactionsUpdate ==
    \E id \in UUIDs, a \in OptOf(Amounts, 0), c \in OptOf(Currencies, ""),
       d \in OptOf(Descriptions, ""), ts \in OptOf(Times, ZeroTime) :
        Enter("TransactionsUpdate",
              [NoArgs EXCEPT !.uuid = id, !.amount = a, !.currency = c,
                             !.description = d, !.timestamp = ts],
              IF rev = 1 THEN TransactionsUpdateV1(id, a, c, d, ts)
              ELSE TransactionsUpdateV2(id, a, c, d, ts))

TransactionsDelete ==
    \E id \in UUIDs :
        Enter("TransactionsDelete", [NoArgs EXCEPT !.uuid = id],
              IF rev = 1 THEN TransactionsDeleteV1(id) ELSE TransactionsDeleteV2(id))

TransactionsReadSummary ==
    \E c \in Currencies, st \in Times, et \in OptOf(Times, ZeroTime) :
        Enter("TransactionsReadSummary",
              [NoArgs EXCEPT !.currency = Ptr(c), !.startTime = Ptr(st),
                             !.endTime = et],
              IF rev = 1 THEN TransactionsReadSummaryV1(c, st, et)
              ELSE TransactionsReadSummaryV2(st, c, et))

CurrenciesRead ==
    /\ rev = 1
    /\ Enter("CurrenciesRead", NoArgs, CurrenciesReadV1)

\* sendRequest, its first statement: the panic on a missing token.
sendRequestCheck ==
    /\ pc = "entered"
    /\ \E t \in TokenReads :
        /\ IF TokenMissing(call.sr.authorize, t)
           THEN pc' = "done" /\ outcome' = Panicked
           ELSE pc' = "checked" /\ outcome' = outcome
        /\ ev' = [op |-> "sendRequestCheck", tok |-> t]
        /\ race' = [race EXCEPT !.checked = t]
    /\ UNCHANGED <<rev, baseURL, token, call, steps, request, nSent, response, auth>>

\* sendRequest, from url.Parse to the headers: an error of url.Parse or of
\* json.Marshal is returned, else the request stands ready.
sendRequestBuild ==
    /\ pc = "checked"
    /\ ev' = [op |-> "sendRequestBuild", tok |-> token]
    /\ IF ~urlParse(baseURL, call.sr.path)
       THEN /\ steps' = {"url.Parse"}
            /\ request' = request
            /\ pc' = "done"
            /\ outcome' = Finish(call.ep, token,
                    [panic |-> FALSE, value |-> NoResult, err |-> PlainErr("url")]).outcome
       ELSE IF ~jsonMarshal(call.sr.bodyParams).ok
       THEN /\ steps' = {"url.Parse", "json.Marshal"}
            /\ request' = request
            /\ pc' = "done"
            /\ outcome' = Finish(call.ep, token,
                    [panic |-> FALSE, value |-> NoResult, err |-> PlainErr("marshal")]).outcome
       ELSE /\ steps' = {"url.Parse", "json.Marshal", "http.NewRequest"}
            /\ \E t \in TokenReads : request' = NewRequest(call.sr, baseURL, t)
            /\ pc' = "built"
            /\ outcome' = outcome
    /\ UNCHANGED <<rev, baseURL, token, call, nSent, response, auth, race>>

\* A login answered with status 200 and an Authorization payload.
LoginAnswered(resp) ==
    /\ resp.fail = "none"
    /\ resp.status = 200
    /\ resp.body.kind = "object"
    /\ Has(resp.body.f, "token")
    /\ Get(resp.body.f, "token").t = "str"

\* sendRequest, from httpClient.Do to its return, and the endpoint method's
\* return: the request goes out once, the transport answers, the answer is
\* interpreted, and Auth stores the token of a login that succeeded.
sendRequestDo ==
    /\ pc = "built"
    /\ \E resp \in Responses :
        LET fin == Finish(call.ep, token, Interpret(rev, resp, call.sr.target)) IN
        /\ response' = resp
        /\ token' = fin.token
        /\ outcome' = fin.outcome
        /\ auth' = IF call.ep # "Auth" THEN auth
                   ELSE IF LoginAnswered(resp)
                   THEN [valid |-> TRUE, tok |-> Get(resp.body.f, "token").s]
                   ELSE NoAuth
    /\ steps' = steps \cup {"httpClient.Do"}
    /\ nSent' = nSent + 1
    /\ pc' = "done"
    /\ ev' = [op |-> "sendRequestDo", tok |-> token]
    /\ race' = NoRace    \* the call reads the token no more
    /\ UNCHANGED <<rev, baseURL, call, request>>

\* The endpoint method has returned (or panicked): the caller has the outcome
\* and the call is over.
Return ==
    /\ pc = "done"
    /\ pc' = "idle"
    /\ call' = NoCall
    /\ steps' = {}
    /\ request' = NoRequest
    /\ nSent' = 0
    /\ response' = NoResponse
    /\ outcome' = NoOutcome
    /\ ev' = [op |-> "Return", tok |-> ""]
    /\ race' = NoRace
    /\ UNCHANGED <<rev, baseURL, token, auth>>

Next ==
    \/ SetToken
    \/ Auth
    \/ AuthLogin
    \/ AuthLogout
    \/ AuthRefresh
    \/ UserCreate
    \/ UserRead
    \/ UserUpdate
    \/ UserDelete
    \/ TransactionsCreate
    \/ TransactionsReadOne
    \/ TransactionsReadMany
    \/ TransactionsUpdate
    \/ TransactionsDelete
    \/ TransactionsReadSummary
    \/ CurrenciesRead
    \/ sendRequestCheck
    \/ sendRequestBuild
    \/ sendRequestDo
    \/ Return

Spec == Init /\ [][Next]_vars

\* The client used by several callers at once: while one call runs, other
\* callers assign the token.
ConcNext ==
    \/ Next
    \/ OtherSetToken

SpecConc == Init /\ [][ConcNext]_vars

----------------------------------------------------------------------------
(* Properties.                                                             *)

\* The endpoint methods that call sendRequest with authorize = true.
AuthorizedEndpoints ==
    {"AuthRefresh", "AuthLogout", "UserRead", "UserUpdate", "UserDelete",
     "TransactionsCreate", "TransactionsReadOne", "TransactionsReadMany",
     "TransactionsUpdate", "TransactionsDelete", "TransactionsReadSummary"}

\* C1: an authorized endpoint method invoked on a client whose token is empty
\* panics, and it does so before the URL is parsed, the request is built or
\* anything is handed to the transport.
C1_EmptyTokenPanicsFirst ==
    (call.ep \in AuthorizedEndpoints /\ token = "" /\ pc # "entered")
        => /\ pc = "done"
           /\ outcome.kind = "panic"
           /\ steps = {}
           /\ ~request.built
           /\ nSent = 0
           /\ response = NoResponse

C1_Witness ==
    /\ pc = "done"
    /\ call.ep = "TransactionsReadMany"
    /\ token = ""
    /\ outcome.kind = "panic"
    /\ nSent = 0

\* A body of the form {error_message: string, error_details: array of string}.
IsErrorObject(body) ==
    /\ body.kind = "object"
    /\ Keys(body.f) = {"error_message", "error_details"}
    /\ Get(body.f, "error_message").t = "str"
    /\ Get(body.f, "error_details").t = "arr"
    /\ \A i \in DOMAIN Get(body.f, "error_details").a :
            Get(body.f, "error_details").a[i].t = "str"

\* C2: a response whose status is not 200 and whose body is an error object
\* yields an API error carrying that status, the message and the details; no
\* status other than 200 yields a success.
C2_ErrorResponseBecomesAPIError ==
    (pc = "done" /\ nSent = 1 /\ response.fail = "none" /\ response.status # 200)
        => /\ ~(outcome.kind = "returned" /\ outcome.err.kind = "none")
           /\ IsErrorObject(response.body)
                => /\ outcome.kind = "returned"
                   /\ outcome.err.kind = "api"
                   /\ outcome.err.status = response.status
                   /\ outcome.err.msg = Get(response.body.f, "error_message").s
                   /\ outcome.err.details =
                        [i \in DOMAIN Get(response.body.f, "error_details").a |->
                            Get(response.body.f, "error_details").a[i].s]

\* C2 restricted to revision 1, where it holds.
C2_HoldsInRevision1 == rev = 1 => C2_ErrorResponseBecomesAPIError

\* C3: a call that passed the token check ends in exactly one outcome, a
\* value without an error or an error without a value (Auth returns an error
\* only), never in a panic, and issues at most one HTTP request.
C3_ExactlyOneOutcome ==
    /\ nSent <= 1
    /\ (pc = "done" /\ ~(call.ep \in AuthorizedEndpoints /\ token = ""))
        => /\ outcome.kind = "returned"
           /\ outcome.err.kind # "none" => ~outcome.result.present
           /\ (outcome.err.kind = "none" /\ call.ep # "Auth") => outcome.result.present
           /\ nSent = 0 => outcome.err.kind \in {"url", "marshal"}

\* C3 restricted to revision 1, where it holds.
C3_HoldsInRevision1 == rev = 1 => C3_ExactlyOneOutcome

\* C4: after an Auth whose login was answered with status 200 and an
\* Authorization payload, and until the next SetToken or Auth, the client's
\* token is the token of that login, every request an authorized endpoint
\* method builds carries Authorization: Bearer <that token>, and (the token
\* not being empty) every authorized call whose URL parses and whose body
\* encodes reaches the transport with it.
C4_LoginTokenIsSent ==
    auth.valid
        => /\ token = auth.tok
           /\ (call.ep \in AuthorizedEndpoints /\ request.built)
                => request.authorization = Ptr("Bearer " \o auth.tok)
           /\ (call.ep \in AuthorizedEndpoints /\ pc = "done" /\ auth.tok # "")
                => \/ nSent = 1 /\ request.authorization = Ptr("Bearer " \o auth.tok)
                   \/ outcome.err.kind \in {"url", "marshal"}

C4_Witness ==
    /\ auth.valid
    /\ auth.tok = "tok1"
    /\ call.ep = "UserRead"
    /\ pc = "done"
    /\ nSent = 1
    /\ request.authorization = Ptr("Bearer tok1")

\* A refresh or login answered with status 200 and a token.
TokenAnswered(resp) ==
    /\ resp.fail = "none"
    /\ resp.status = 200
    /\ resp.body.kind = "object"
    /\ Has(resp.body.f, "token")
    /\ Get(resp.body.f, "token").t = "str"
    /\ Get(resp.body.f, "token").s # ""

\* The first two transitions of C5: an explicit assignment of a token and a
\* successful login through Auth leave the client Authenticated with that token.
C5_LoginAndAssignment ==
    /\ (ev.op = "SetToken" /\ ev.tok # "") => token = ev.tok
    /\ (pc = "done" /\ call.ep = "Auth" /\ TokenAnswered(response))
        => token = Get(response.body.f, "token").s

\* C5 as stated: besides, a successful refresh on an Authenticated client
\* replaces the token by the token the refresh returned.
C5_RefreshReplacesToken ==
    /\ C5_LoginAndAssignment
    /\ (pc = "done" /\ call.ep = "AuthRefresh" /\ TokenAnswered(response))
        => token = Get(response.body.f, "token").s

\* C5 amended: an assignment of a non-empty token and an Auth whose login
\* returned a non-empty token leave the client Authenticated with that token;
\* a successful refresh on an Authenticated client returns the new
\* Authorization and leaves the client Authenticated with the token it had
\* (ev.tok is the token when the request went out).
C5_RefreshKeepsToken ==
    /\ C5_LoginAndAssignment
    /\ (pc = "done" /\ call.ep = "AuthRefresh" /\ TokenAnswered(response))
        => /\ token = ev.tok
           /\ token # ""
           /\ outcome.result.token = Get(response.body.f, "token").s

C5_Witness ==
    /\ pc = "done"
    /\ call.ep = "AuthRefresh"
    /\ TokenAnswered(response)
    /\ token = "tok1"
    /\ outcome.result.token = "tok2"

\* The optional (pointer) parameters of the endpoint methods, each with the
\* key it is sent under (the date of a transaction is "timestamp" in
\* revision 1 and "date" in revision 2).
OptionalKeys(ep) ==
    CASE ep = "UserUpdate" ->
            {<<"username", "new_username">>, <<"password", "new_password">>}
      [] ep = "TransactionsCreate" ->
            {<<"description", "description">>, <<"timestamp", "timestamp">>,
             <<"timestamp", "date">>}
      [] ep = "TransactionsReadOne" -> {<<"currency", "currency">>}
      [] ep = "TransactionsReadMany" ->
            {<<"endTime", "end_time">>, <<"currency", "currency">>}
      [] ep = "TransactionsUpdate" ->
            {<<"amount", "new_amount">>, <<"currency", "new_currency">>,
             <<"description", "new_description">>,
             <<"timestamp", "new_timestamp">>, <<"timestamp", "new_date">>}
      [] ep = "TransactionsReadSummary" -> {<<"endTime", "end_time">>}
      [] OTHER -> {}

\* C6: the key of an optional parameter left unset is in neither the query
\* string nor the JSON body of the request; listing transactions sends
\* start_time, and end_time and currency exactly when they are set.
C6_UnsetParametersOmitted ==
    request.built
        => /\ \A o \in OptionalKeys(call.ep) :
                ~call.args[o[1]].set
                    => /\ o[2] \notin Keys(request.query)
                       /\ o[2] \notin Keys(request.body.members)
           /\ call.ep = "TransactionsReadMany"
                => Keys(request.query) =
                        {"start_time"}
                        \cup (IF call.args.endTime.set THEN {"end_time"} ELSE {})
                        \cup (IF call.args.currency.set THEN {"currency"} ELSE {})

C6_Witness ==
    /\ request.built
    /\ call.ep = "TransactionsReadMany"
    /\ ~call.args.endTime.set
    /\ ~call.args.currency.set
    /\ Keys(request.query) = {"start_time"}
    /\ nSent = 1

\* The same listing with all three parameters set sends all three keys.
C6_AllThreeSent ==
    (request.built /\ call.ep = "TransactionsReadMany"
        /\ call.args.endTime.set /\ call.args.currency.set)
        => Keys(request.query) = {"start_time", "end_time", "currency"}

\* The endpoint methods that pass nil for the body parameters.
NilBodyEndpoints ==
    {"AuthRefresh", "AuthLogout", "UserRead", "UserDelete",
     "TransactionsReadOne", "TransactionsDelete", "TransactionsReadMany",
     "TransactionsReadSummary", "CurrenciesRead"}

\* C7: an endpoint method that passes no body-parameter map sends the empty
\* JSON object {}; a map that is present is sent as the object of exactly its
\* key/value pairs.
C7_NilBodyIsEmptyObject ==
    request.built
        => /\ request.body.kind = "object"
           /\ call.ep \in NilBodyEndpoints => request.body.members = {}
           /\ Keys(request.body.members) = Keys(call.sr.bodyParams.m)

\* What C7 finds instead: the body of these calls is the JSON literal null.
C7_NilBodyIsNull ==
    (request.built /\ call.ep \in NilBodyEndpoints)
        => request.body = [kind |-> "null", members |-> {}]

\* The text of a timestamp in a JSON body, were it formatted as the query
\* parameters are.
Quoted(text) == "\"" \o text \o "\""

\* C8: every timestamp sent is the text timeFormat gives: start_time and
\* end_time in the query, and the timestamp of a create-transaction body and
\* the new_timestamp of an update-transaction body, where they are sent.
C8_OneTimeFormat ==
    request.built
        => /\ call.args.startTime.set
                => Get(request.query, "start_time") = timeFormat(call.args.startTime.v)
           /\ call.args.endTime.set
                => Get(request.query, "end_time") = timeFormat(call.args.endTime.v)
           /\ \A k \in {"timestamp", "date", "new_timestamp", "new_date"} :
                Has(request.body.members, k)
                    => Get(request.body.members, k)
                            = Quoted(timeFormat(call.args.timestamp.v))

\* C8 for the query parameters and the update-transaction body alone.
C8_HoldsOutsideCreate == call.ep # "TransactionsCreate" => C8_OneTimeFormat

\* C9: the body of the update-transaction request holds new_amount,
\* new_currency, new_description and new_timestamp for exactly the parameters
\* that are present, with the values supplied.
C9_UpdateForwardsFields ==
    (request.built /\ call.ep = "TransactionsUpdate")
        => /\ request.body.kind = "object"
           /\ request.body.members =
                (IF call.args.amount.set
                    THEN {<<"new_amount", ToString(call.args.amount.v)>>} ELSE {})
                \cup (IF call.args.currency.set
                    THEN {<<"new_currency", Quoted(call.args.currency.v)>>} ELSE {})
                \cup (IF call.args.description.set
                    THEN {<<"new_description", Quoted(call.args.description.v)>>}
                    ELSE {})
                \cup (IF call.args.timestamp.set
                    THEN {<<"new_timestamp", Quoted(timeFormat(call.args.timestamp.v))>>}
                    ELSE {})

\* C9 restricted to revision 1, where it holds.
C9_HoldsInRevision1 == rev = 1 => C9_UpdateForwardsFields

\* C10: the token changes only in SetToken and in the return of an Auth whose
\* login succeeded; an Auth whose login failed, and every other endpoint
\* method, leave it as it was; the base URL never changes.
C10_TokenFrame ==
    [][/\ baseURL' = baseURL
       /\ token' # token
            => \/ ev'.op = "SetToken"
               \/ /\ call.ep = "Auth"
                  /\ ev'.op = "sendRequestDo"
                  /\ response'.fail = "none"
                  /\ response'.status = 200
                  /\ outcome'.kind = "returned"
                  /\ outcome'.err.kind = "none"
       /\ (call.ep = "Auth" /\ pc' = "done" /\ outcome'.err.kind # "none")
            => token' = token]_vars

C10_Witness ==
    /\ pc = "done"
    /\ call.ep = "Auth"
    /\ outcome.err.kind = "api"
    /\ ev.op = "sendRequestDo"
    /\ token = "tok1"
    /\ ev.tok = "tok1"

\* C11 as stated: in every interleaving with assignments of the token by
\* other callers, the Authorization header of an authorized request that is
\* ready for the transport carries the token the call's check read, and that
\* token is not empty.
C11_HeaderIsCheckedToken ==
    (pc = "built" /\ call.ep \in AuthorizedEndpoints)
        => /\ race.checked # ""
           /\ request.authorization = Ptr("Bearer " \o race.checked)

\* C11 amended: the same, for a call during which no other caller assigned
\* the token; in any case the header carries a value the token held during
\* the call, or a read torn between two of them.
C11_HeaderIsCheckedTokenUnlessWritten ==
    (pc = "built" /\ call.ep \in AuthorizedEndpoints)
        => /\ race.checked # ""
           /\ race.writes = 0
                => request.authorization = Ptr("Bearer " \o race.checked)
           /\ \E t \in {token, Torn} \cup race.stale :
                request.authorization = Ptr("Bearer " \o t)

\* a request of UserRead ready for the transport, no other caller having
\* assigned the token since the call began
C11_Witness ==
    /\ pc = "built"
    /\ "http.NewRequest" \in steps
    /\ call.ep = "UserRead"
    /\ race.writes = 0
    /\ race.checked = "tok1"
    /\ request.authorization = Ptr("Bearer tok1")

====
